---- MODULE Spec2Model ----
(***************************************************************************)
(* Model of backend/app.py: the POST /submit handler submit_app, its       *)
(* validation (required fields, email, phone, birth date, postal code,     *)
(* validate_format), the single outbound call to the verification          *)
(* provider, the except clauses, and the flask-limiter quota in front of   *)
(* the route.                                                              *)
(*                                                                         *)
(* A string is a sequence of one-character strings.  The character "u0663" *)
(* stands for ARABIC-INDIC DIGIT THREE, a decimal digit that is not ASCII. *)
(***************************************************************************)
EXTENDS Integers, Sequences, FiniteSets, TLC

VARIABLES
    now,          \* the limiter's clock (time.time()), in ticks
    storage,      \* limiter counters, one per limit key (memory:// storage)
    expirations,  \* expiry time of each counter
    request,      \* the request being served: client address, body, today
    pc,           \* "arrived": request received, not yet routed; "done": answered
    response,     \* the answer to the request
    provider,     \* what the outbound call of the request met ("none": no call)
    arrivals,     \* observer: per client, its arrivals of the last minute
    admitted,     \* observer: requests admitted to the handler since time 0
    asked         \* observer: per client, whether it made no, one or more requests

vars == <<now, storage, expirations, request, pc, response, provider, arrivals, admitted, asked>>

---------------------------------------------------------------------------
(* Characters and the regular expressions of the handler.                  *)

AsciiDigits == {"0", "1", "2", "3", "4", "5", "6", "7", "8", "9"}

UnicodeDigits == {"u0663"}

\* \d of a str pattern: every Unicode decimal digit
IsDigit(c) == c \in AsciiDigits \cup UnicodeDigits

\* \s
IsSpace(c) == c \in {" ", "\n", "\t"}

\* [A-Z]
IsUpper(c) ==
    c \in {"A", "B", "C", "D", "E", "F", "G", "H", "I", "J", "K", "L", "M",
           "N", "O", "P", "Q", "R", "S", "T", "U", "V", "W", "X", "Y", "Z"}

\* [^\s@]
IsLocalChar(c) == ~IsSpace(c) /\ c # "@"

\* "$" after n matched characters: at the end of the string, or right before
\* a newline that ends the string
AtDollar(s, n) == n = Len(s) \/ (n = Len(s) - 1 /\ s[Len(s)] = "\n")

AllDigits(s, lo, hi) == \A i \in lo..hi : IsDigit(s[i])

AllLocal(s, lo, hi) == \A i \in lo..hi : IsLocalChar(s[i])

\* re.match(r'^\d{k}$', s)
MatchDigits(s, k) == Len(s) >= k /\ AllDigits(s, 1, k) /\ AtDollar(s, k)

\* re.match(r'^\d{9}$', s)
MatchSsn(s) == MatchDigits(s, 9)

\* re.match(r'^\d{5}$', s)
MatchPostal(s) == MatchDigits(s, 5)

\* re.match(r'^\d{4}-\d{2}-\d{2}$', s)
MatchDate(s) ==
    /\ Len(s) >= 10
    /\ AllDigits(s, 1, 4) /\ s[5] = "-"
    /\ AllDigits(s, 6, 7) /\ s[8] = "-"
    /\ AllDigits(s, 9, 10)
    /\ AtDollar(s, 10)

\* re.match(r'^[A-Z]{2}$', s)
MatchState(s) == Len(s) >= 2 /\ IsUpper(s[1]) /\ IsUpper(s[2]) /\ AtDollar(s, 2)

\* re.match(r'^[^\s@]+@[^\s@]+\.[^\s@]+$', s)
MatchEmail(s) ==
    \E at \in 2..Len(s) : \E dot \in (at + 2)..Len(s) : \E end \in (dot + 1)..Len(s) :
        /\ AllLocal(s, 1, at - 1)
        /\ s[at] = "@"
        /\ AllLocal(s, at + 1, dot - 1)
        /\ s[dot] = "."
        /\ AllLocal(s, dot + 1, end)
        /\ AtDollar(s, end)

\* re.sub(r'\D', '', s)
StripNonDigits(s) == SelectSeq(s, IsDigit)

---------------------------------------------------------------------------
(* Dates: datetime.strptime(s, '%Y-%m-%d') and datetime.today().           *)

DigitChars == <<"0", "1", "2", "3", "4", "5", "6", "7", "8", "9">>

\* int() of one decimal digit
DigitVal(c) ==
    IF c = "u0663" THEN 3
    ELSE CHOOSE n \in 0..9 : DigitChars[n + 1] = c

\* int() of the digits s[lo..hi]
RECURSIVE IntOf(_, _, _)
IntOf(s, lo, hi) ==
    IF hi < lo THEN 0 ELSE 10 * IntOf(s, lo, hi - 1) + DigitVal(s[hi])

IsLeap(y) == (y % 4 = 0 /\ y % 100 # 0) \/ y % 400 = 0

DaysInMonth(y, m) ==
    IF m = 2 THEN (IF IsLeap(y) THEN 29 ELSE 28)
    ELSE IF m \in {4, 6, 9, 11} THEN 30 ELSE 31

\* the date class's own check: MINYEAR <= year, 1 <= month <= 12, day in month
IsCalendarDate(y, m, d) ==
    y >= 1 /\ m \in 1..12 /\ d >= 1 /\ d <= DaysInMonth(y, m)

\* %m as a regular expression: 1[0-2]|0[1-9]|[1-9]
IsMonthText(s, lo, hi) ==
    \/ hi = lo + 1 /\ s[lo] = "1" /\ s[hi] \in {"0", "1", "2"}
    \/ hi = lo + 1 /\ s[lo] = "0" /\ s[hi] \in AsciiDigits \ {"0"}
    \/ hi = lo /\ s[lo] \in AsciiDigits \ {"0"}

\* %d as a regular expression: 3[0-1]|[1-2]\d|0[1-9]|[1-9]| [1-9]
IsDayText(s, lo, hi) ==
    \/ hi = lo + 1 /\ s[lo] = "3" /\ s[hi] \in {"0", "1"}
    \/ hi = lo + 1 /\ s[lo] \in {"1", "2"} /\ IsDigit(s[hi])
    \/ hi = lo + 1 /\ s[lo] = "0" /\ s[hi] \in AsciiDigits \ {"0"}
    \/ hi = lo /\ s[lo] \in AsciiDigits \ {"0"}
    \/ hi = lo + 1 /\ s[lo] = " " /\ s[hi] \in AsciiDigits \ {"0"}

\* where the month text of s ends, when s has the shape of '%Y-%m-%d' and
\* nothing is left unconverted; 0 when it has not
MonthEnd(s) ==
    IF /\ Len(s) >= 8
       /\ AllDigits(s, 1, 4) /\ s[5] = "-"
       /\ \E e \in {6, 7} :
            /\ e + 2 <= Len(s) /\ Len(s) <= e + 3
            /\ IsMonthText(s, 6, e) /\ s[e + 1] = "-"
            /\ IsDayText(s, e + 2, Len(s))
    THEN CHOOSE e \in {6, 7} :
            /\ e + 2 <= Len(s) /\ Len(s) <= e + 3
            /\ IsMonthText(s, 6, e) /\ s[e + 1] = "-"
            /\ IsDayText(s, e + 2, Len(s))
    ELSE 0

NoDate == [ok |-> FALSE, year |-> 0, month |-> 0, day |-> 0]

\* datetime.strptime(s, '%Y-%m-%d'); ok = FALSE stands for its ValueError
strptime(s) ==
    LET e == MonthEnd(s) IN
    IF e = 0 THEN NoDate
    ELSE LET y == IntOf(s, 1, 4)
             m == IntOf(s, 6, e)
             d == IntOf(s, IF s[e + 2] = " " THEN e + 3 ELSE e + 2, Len(s))
         IN  IF IsCalendarDate(y, m, d)
             THEN [ok |-> TRUE, year |-> y, month |-> m, day |-> d]
             ELSE NoDate

\* a comparison that also holds of equal tuples
TupleLess_orEqual(a, b, c, d) == a < c \/ (a = c /\ b <= d)

\* (a, b) < (c, d) on tuples
TupleLess(a, b, c, d) == a < c \/ (a = c /\ b < d)

\* today.year - birth.year - ((today.month, today.day) < (birth.month, birth.day))
Age(today, birth) ==
    today.year - birth.year
        - (IF TupleLess(today.month, today.day, birth.month, birth.day) THEN 1 ELSE 0)

---------------------------------------------------------------------------
(* JSON values, the submission and the request body.                       *)

\* a JSON value of the submission; kind "absent": the key is not in the mapping
JStr(s) == [kind |-> "str", s |-> s, n |-> 0]

JNum(n) == [kind |-> "num", s |-> <<>>, n |-> n]

JNull == [kind |-> "null", s |-> <<>>, n |-> 0]

Absent == [kind |-> "absent", s |-> <<>>, n |-> 0]

\* bool(v), as "not data[field]" takes it
Truthy(v) ==
    CASE v.kind = "str" -> v.s # <<>>
      [] v.kind = "num" -> v.n # 0
      [] OTHER -> FALSE

FIELD_NAMES ==
    [name_first |-> "First Name", name_last |-> "Last Name",
     email_address |-> "Email Address", phone_number |-> "Phone Number",
     address_line_1 |-> "Address Line 1", address_line_2 |-> "Address Line 2",
     address_city |-> "City", address_state |-> "State",
     address_postal_code |-> "Postal Code", address_country_code |-> "Country",
     document_ssn |-> "Social Security Number", birth_date |-> "Date of Birth"]

Fields == DOMAIN FIELD_NAMES

required_fields ==
    <<"name_first", "name_last", "email_address", "phone_number",
      "address_line_1", "address_city", "address_state",
      "address_postal_code", "address_country_code",
      "document_ssn", "birth_date">>

\* outcome of one step of the handler: it passes, it answers 400 with msg, or
\* it raises exc
Pass == [tag |-> "pass", msg |-> "", exc |-> ""]

Reject(m) == [tag |-> "reject", msg |-> m, exc |-> ""]

Raise(e) == [tag |-> "raise", msg |-> "", exc |-> e]

\* the classes an exception is an instance of
ExcClasses(e) ==
    CASE e = "BadRequest" -> {"BadRequest", "HTTPException", "Exception"}
      [] e = "TypeError" -> {"TypeError", "Exception"}
      [] e = "KeyError" -> {"KeyError", "LookupError", "Exception"}
      [] e = "ValueError" -> {"ValueError", "Exception"}
      [] e = "JSONDecodeError" ->
            {"JSONDecodeError", "InvalidJSONError", "RequestException",
             "ValueError", "OSError", "Exception"}
      [] e = "ConnectionError" ->
            {"ConnectionError", "RequestException", "OSError", "Exception"}
      [] e = "ConnectTimeout" ->
            {"ConnectTimeout", "ConnectionError", "Timeout",
             "RequestException", "OSError", "Exception"}
      [] e = "ReadTimeout" ->
            {"ReadTimeout", "Timeout", "RequestException", "OSError", "Exception"}
      [] e = "TooManyRedirects" ->
            {"TooManyRedirects", "RequestException", "OSError", "Exception"}

\* request.get_json(): the parsed body, or BadRequest when there is no JSON
\* body to parse or the body is not JSON
get_json(body) ==
    IF body.kind \in {"missing", "malformed"} THEN Raise("BadRequest") ELSE Pass

\* "field in data" for the parsed body: a key of the object, an element of the
\* array, a substring of the string; TypeError for null and for a number
Contains(body, field) ==
    CASE body.kind = "object" -> body.data[field].kind # "absent"
      [] body.kind \in {"array", "string"} -> field \in body.members
      [] OTHER -> FALSE

\* lines 93-97, from required_fields[i] on
RECURSIVE CheckRequired(_, _)
CheckRequired(body, i) ==
    IF i > Len(required_fields) THEN Pass
    ELSE LET field == required_fields[i] IN
         IF body.kind \in {"null", "number"} THEN Raise("TypeError")
         ELSE IF ~Contains(body, field)
              THEN Reject("Missing required field: " \o FIELD_NAMES[field])
         ELSE IF body.kind # "object" THEN Raise("TypeError")
         ELSE IF ~Truthy(body.data[field])
              THEN Reject("Missing required field: " \o FIELD_NAMES[field])
         ELSE CheckRequired(body, i + 1)

\* a loop that starts at the second required field
RequiredCheck_fromSecond(body) == CheckRequired(body, 2)

RequiredCheck(body) == CheckRequired(body, 1)

\* lines 99-103
EmailCheck(data) ==
    LET v == data["email_address"] IN
    IF v.kind = "absent" THEN Pass
    ELSE IF v.kind # "str" THEN Raise("TypeError")
    ELSE IF ~MatchEmail(v.s) THEN Reject("Invalid email format")
    ELSE Pass

\* lines 105-109
PhoneCheck(data) ==
    LET v == data["phone_number"] IN
    IF v.kind = "absent" THEN Pass
    ELSE IF v.kind # "str" THEN Raise("TypeError")
    ELSE IF Len(StripNonDigits(v.s)) # 10 THEN Reject("Phone number must be 10 digits")
    ELSE Pass

\* lines 111-118
BirthCheck(data, today) ==
    LET v == data["birth_date"] IN
    IF v.kind = "absent" THEN Pass
    ELSE IF v.kind # "str" THEN Raise("TypeError")
    ELSE LET birth == strptime(v.s) IN
         IF ~birth.ok THEN Raise("ValueError")
         ELSE IF Age(today, birth) < 18 THEN Reject("Must be at least 18 years old")
         ELSE Pass

\* lines 120-123
PostalCheck(data) ==
    LET v == data["address_postal_code"] IN
    IF v.kind = "absent" THEN Pass
    ELSE IF v.kind # "str" THEN Raise("TypeError")
    ELSE IF ~MatchPostal(v.s) THEN Reject("Postal code must be 5 digits")
    ELSE Pass

\* lines 63-65
SsnFormat(data) ==
    LET v == data["document_ssn"] IN
    IF v.kind = "absent" THEN Pass
    ELSE IF v.kind # "str" THEN Raise("TypeError")
    ELSE IF ~MatchSsn(v.s) THEN Reject("SSN must be exactly 9 digits with no dashes")
    ELSE Pass

\* lines 67-69
BirthFormat(data) ==
    LET v == data["birth_date"] IN
    IF v.kind = "absent" THEN Pass
    ELSE IF v.kind # "str" THEN Raise("TypeError")
    ELSE IF ~MatchDate(v.s) THEN Reject("Date of Birth must be in YYYY-MM-DD format")
    ELSE Pass

\* lines 71-73
StateFormat(data) ==
    LET v == data["address_state"] IN
    IF v.kind = "absent" THEN Pass
    ELSE IF v.kind # "str" THEN Raise("TypeError")
    ELSE IF ~MatchState(v.s) THEN Reject("State must be a 2-letter code (e.g., NY, CA)")
    ELSE Pass

\* lines 75-76
CountryFormat(data) ==
    LET v == data["address_country_code"] IN
    IF v.kind # "absent" /\ v # JStr(<<"U", "S">>)
    THEN Reject("Country must be 'US'")
    ELSE Pass

\* the outcome of the first step of steps that does not pass
FirstFailure(steps) ==
    IF \A i \in 1..Len(steps) : steps[i].tag = "pass" THEN Pass
    ELSE steps[CHOOSE i \in 1..Len(steps) :
                  /\ steps[i].tag # "pass"
                  /\ \A j \in 1..(i - 1) : steps[j].tag = "pass"]

\* validate_format without its SSN check
validate_format_noSsn(data) ==
    FirstFailure(<<BirthFormat(data), StateFormat(data), CountryFormat(data)>>)

\* validate_format with the state checked first
validate_format_stateFirst(data) ==
    FirstFailure(<<StateFormat(data), SsnFormat(data), BirthFormat(data),
                   CountryFormat(data)>>)

validate_format(data) ==
    FirstFailure(<<SsnFormat(data), BirthFormat(data), StateFormat(data),
                   CountryFormat(data)>>)

\* lines 85-128: parsing and the checks, in the order the handler runs them
Validation(body, today) ==
    FirstFailure(<<get_json(body), RequiredCheck(body), EmailCheck(body.data),
                   PhoneCheck(body.data), BirthCheck(body.data, today),
                   PostalCheck(body.data), validate_format(body.data)>>)

---------------------------------------------------------------------------
(* The provider call and the answers of submit_app.                        *)

Answer(status, error, calls) ==
    [status |-> status, error |-> error, outcome |-> "", token |-> "",
     calls |-> calls]

\* lines 152-166: the first except clause the exception is an instance of
ExceptClause(e, calls) ==
    IF "ValueError" \in ExcClasses(e)
    THEN Answer(400, "Invalid data format", calls)
    ELSE IF "ConnectionError" \in ExcClasses(e)
    THEN Answer(503, "Unable to connect to verification service", calls)
    ELSE IF "Timeout" \in ExcClasses(e)
    THEN Answer(504, "Request timed out. Please try again.", calls)
    ELSE Answer(500, "An unexpected error occurred", calls)

\* what the one requests.post(url, ..., timeout=30) can meet: a response with a
\* status and a payload, or an exception
NoProvider == [kind |-> "none", status |-> 0, payload |-> "", exc |-> ""]

ProviderResponse(status, payload) ==
    [kind |-> "response", status |-> status, payload |-> payload, exc |-> ""]

ProviderRaises(e) == [kind |-> "raise", status |-> 0, payload |-> "", exc |-> e]

\* lines 131-150; the call is made once
AlloyCall(prov) ==
    IF prov.kind = "raise" THEN ExceptClause(prov.exc, 1)
    ELSE IF prov.status # 201 THEN Answer(prov.status, "Alloy API error", 1)
    ELSE IF prov.payload = "not_json" THEN ExceptClause("JSONDecodeError", 1)
    ELSE IF prov.payload = "no_summary" THEN ExceptClause("KeyError", 1)
    ELSE [status |-> 200, error |-> "", outcome |-> "Approved",
          token |-> IF prov.payload = "outcome_and_token" THEN "abc123" ELSE "",
          calls |-> 1]

\* lines 83-166
submit_app(body, today, prov) ==
    LET v == Validation(body, today) IN
    CASE v.tag = "raise" -> ExceptClause(v.exc, 0)
      [] v.tag = "reject" -> Answer(400, v.msg, 0)
      [] OTHER -> AlloyCall(prov)

---------------------------------------------------------------------------
(* The limiter: Limiter(get_remote_address, default_limits=["100 per        *)
(* hour"], storage_uri="memory://") and @limiter.limit("5 per minute"),     *)
(* with flask-limiter's default fixed-window strategy.                      *)

\* ticks of the clock in one minute
MinuteTicks == 2

HourTicks == 60 * MinuteTicks

\* the clock of the quota specification stops at MaxClock
MaxClock == 3

\* the clock of the hourly specification stops after MaxMinutes minutes
MaxMinutes == 10

\* hits counted past the amount of a limit before the client gives up
MaxOver == 1

Clients == {"10.0.0.1", "10.0.0.2"}

default_limits == <<[name |-> "100 per 1 hour", amount |-> 100, expiry |-> HourTicks]>>

submit_limits == <<[name |-> "5 per 1 minute", amount |-> 5, expiry |-> MinuteTicks]>>

\* a route left with the default limits only
RouteLimits_defaults == default_limits

\* the limits in force on /submit: a decorated route's limits override the
\* default limits
RouteLimits == submit_limits

\* one counter per limit, shared by all clients
KeyFor_shared(addr, limit) == "LIMITER/*/submit_app/" \o limit.name

\* the counter a limit uses for a client: get_remote_address is the key function
KeyFor(addr, limit) == "LIMITER/" \o addr \o "/submit_app/" \o limit.name

Keys ==
    {KeyFor(a, l) : a \in Clients \cup {"*"},
                    l \in {default_limits[1], submit_limits[1]}}

\* MemoryStorage.get: a counter whose expiry has come is dropped
Live(st, ex, key, t) == IF ex[key] <= t THEN 0 ELSE st[key]

\* FixedWindowRateLimiter.hit on MemoryStorage.incr, for the limits in force in
\* turn: the counter is incremented, its expiry is set when it is the first hit
\* of a window, and the hit is allowed while the counter is within the amount
RECURSIVE Hit(_, _, _, _, _)
Hit(st, ex, t, addr, limits) ==
    IF limits = <<>> THEN [allowed |-> TRUE, storage |-> st, expirations |-> ex]
    ELSE LET limit == Head(limits)
             key == KeyFor(addr, limit)
             count == Live(st, ex, key, t) + 1
             st1 == [st EXCEPT ![key] = count]
             ex1 == [ex EXCEPT ![key] = IF count = 1 THEN t + limit.expiry ELSE @]
         IN  IF count <= limit.amount
             THEN Hit(st1, ex1, t, addr, Tail(limits))
             ELSE [allowed |-> FALSE, storage |-> st1, expirations |-> ex1]

\* the answer to RateLimitExceeded
RateLimited == Answer(429, "Too Many Requests", 0)

NoRequest == [addr |-> "", body |-> [kind |-> "", members |-> {}, data |-> <<>>],
              today |-> NoDate]

NoAnswer == Answer(0, "", 0)

\* the provider behaviours a request can meet: those of ps when its submission
\* reaches the outbound call, none otherwise
Met(body, today, ps) ==
    IF Validation(body, today).tag = "pass" THEN ps ELSE {NoProvider}

\* one request to POST /submit from addr, answered by answer when the limiter
\* lets it through to the handler
Route(addr, body, today, prov, answer) ==
    LET hit == Hit(storage, expirations, now, addr, RouteLimits)
        given == IF hit.allowed THEN answer ELSE RateLimited
    IN  /\ storage' = hit.storage
        /\ expirations' = hit.expirations
        /\ request' = [addr |-> addr, body |-> body, today |-> today]
        /\ response' = given
        /\ provider' = IF given.calls > 0 THEN prov ELSE NoProvider
        /\ pc' = "done"
        /\ UNCHANGED now

\* one request to POST /submit from addr: the limiter, then the handler
Serve(addr, body, today, prov) ==
    Route(addr, body, today, prov, submit_app(body, today, prov))

---------------------------------------------------------------------------
(* The requests the model serves.                                          *)

Date(y, m, d) == [ok |-> TRUE, year |-> y, month |-> m, day |-> d]

\* a submission every check passes
BaseData ==
    [name_first |-> JStr(<<"J", "o">>), name_last |-> JStr(<<"D", "o", "e">>),
     email_address |-> JStr(<<"j", "o", "@", "e", "x", ".", "c", "o">>),
     phone_number |-> JStr(<<"(", "5", "5", "5", ")", " ", "1", "2", "3", "-", "4", "5", "6", "7">>),
     address_line_1 |-> JStr(<<"1", " ", "M", "a", "i", "n", " ", "S", "t">>), address_line_2 |-> Absent,
     address_city |-> JStr(<<"T", "r", "o", "y">>), address_state |-> JStr(<<"N", "Y">>),
     address_postal_code |-> JStr(<<"1", "2", "3", "4", "5">>),
     address_country_code |-> JStr(<<"U", "S">>),
     document_ssn |-> JStr(<<"1", "2", "3", "4", "5", "6", "7", "8", "9">>),
     birth_date |-> JStr(<<"1", "9", "9", "0", "-", "0", "1", "-", "0", "5">>)]

Empties == {Absent, JStr(<<>>)}

\* the values a field takes besides its value in BaseData
Alternatives(f) ==
    CASE f = "name_first" -> Empties \cup {JNull, JNum(0)}
      [] f = "email_address" ->
            Empties \cup {JStr(<<"j", "o", "@", "e", "x", "c", "o">>), JStr(<<"j", " ", "o", "@", "e", "x", ".", "c", "o">>), JStr(<<"j", "o", "@", "e", "x", ".", "c", "o", "\n">>),
                          JStr(<<"j", "o", "@", "@", "e", "x", ".", "c", "o">>), JNum(7)}
      [] f = "phone_number" ->
            Empties \cup {JStr(<<"5", "5", "5", "-", "1", "2", "3">>), JStr(<<"1", "5", "5", "5", "1", "2", "3", "4", "5", "6", "7">>),
                          JStr(<<"5", "5", "5", ".", "1", "2", "3", ".", "4", "5", "6", "7", "\n">>)}
      [] f = "birth_date" ->
            Empties \cup {JStr(<<"2", "0", "0", "8", "-", "0", "6", "-", "1", "5">>), JStr(<<"2", "0", "1", "0", "-", "0", "1", "-", "0", "1">>),
                          JStr(<<"1", "9", "9", "0", "-", "1", "-", "5">>), JStr(<<"1", "9", "9", "0", "-", "0", "2", "-", "3", "0">>),
                          JStr(<<"1", "9", "9", "0", "/", "0", "1", "/", "0", "5">>), JStr(<<"1", "9", "9", "0", "-", "0", "1", "-", "0", "5", "\n">>)}
      [] f = "address_postal_code" ->
            Empties \cup {JStr(<<"1", "2", "3", "4">>), JStr(<<"1", "2", "3", "4", "5", "6">>), JStr(<<"1", "2", "3", "4", "5", "\n">>),
                          JStr(<<"1", "2", "3", "4", "a">>)}
      [] f = "document_ssn" ->
            Empties \cup {JStr(<<"1", "2", "3", "-", "4", "5", "-", "6", "7", "8", "9">>),
                          JStr(<<"1", "2", "3", "4", "5">>), JStr(<<"1", "2", "3", "4", "5", "6", "7", "8", "9", "0">>),
                          JStr(<<"1", "2", "3", "4", "5", "6", "7", "8", "9", "\n">>),
                          JStr(<<"1", "2", "3", "4", "5", "6", "7", "8", "9", " ">>),
                          JStr(<<"1", "2", "u0663", "4", "5", "6", "7", "8", "9">>), JNum(123456789)}
      [] f = "address_state" ->
            Empties \cup {JStr(<<"n", "y">>), JStr(<<"N", "Y", "C">>), JStr(<<"N">>), JStr(<<"N", "Y", "\n">>)}
      [] f = "address_country_code" ->
            Empties \cup {JStr(<<"u", "s">>), JStr(<<"C", "A">>), JStr(<<"U", "S", "\n">>)}
      [] f = "address_line_2" -> {JStr(<<"A", "p", "t", " ", "1">>)}
      [] OTHER -> Empties

\* fields of a submission that differ from BaseData, at most
MaxBad == 2

FieldOrder == required_fields \o <<"address_line_2">>

\* BaseData with at most k of the fields FieldOrder[i..] replaced by an
\* alternative
RECURSIVE Edited(_, _)
Edited(i, k) ==
    IF i > Len(FieldOrder) \/ k = 0 THEN {BaseData}
    ELSE Edited(i + 1, k)
         \cup {[d EXCEPT ![FieldOrder[i]] = v] :
                 d \in Edited(i + 1, k - 1), v \in Alternatives(FieldOrder[i])}

Submissions(k) == Edited(1, k)

ObjectBody(d) == [kind |-> "object", members |-> {}, data |-> d]

NoData == [f \in Fields |-> Absent]

\* bodies that are no JSON object: no JSON body, malformed JSON, and JSON that
\* parses to null, a number, a string or an array
OtherBodies ==
    {[kind |-> k, members |-> {}, data |-> NoData] :
        k \in {"missing", "malformed", "null", "number", "string", "array"}}
    \cup {[kind |-> k, members |-> {"name_first"}, data |-> NoData] :
            k \in {"string", "array"}}

Bodies == {ObjectBody(d) : d \in Submissions(MaxBad)} \cup OtherBodies

Todays == {Date(2026, 6, 14), Date(2026, 6, 15)}

Providers ==
    {ProviderResponse(201, "outcome_and_token"), ProviderResponse(201, "outcome_only"),
     ProviderResponse(201, "no_summary"), ProviderResponse(201, "not_json"),
     ProviderResponse(200, "error"), ProviderResponse(202, "error"),
     ProviderResponse(400, "error"), ProviderResponse(500, "error"),
     ProviderRaises("ConnectionError"), ProviderRaises("ConnectTimeout"),
     ProviderRaises("ReadTimeout"), ProviderRaises("TooManyRedirects")}

\* the requests of the specifications SpecQuota and SpecHour: a valid
\* submission or one with a short SSN, on one day, the provider answering 201
Today0 == Date(2026, 6, 15)

QuotaBodies ==
    {ObjectBody(BaseData),
     ObjectBody([BaseData EXCEPT !["document_ssn"] = JStr(<<"1", "2", "3">>)])}

QuotaProviders == {ProviderResponse(201, "outcome_and_token")}

\* Met and submit_app on those requests, as tables
QuotaMet == [b \in QuotaBodies |-> Met(b, Today0, QuotaProviders)]

QuotaAnswer ==
    [b \in QuotaBodies |->
        [p \in QuotaProviders \cup {NoProvider} |-> submit_app(b, Today0, p)]]

---------------------------------------------------------------------------
(* Spec: one request with any of the bodies, served once.                  *)

LimiterInit ==
    /\ now = 0
    /\ storage = [k \in Keys |-> 0]
    /\ expirations = [k \in Keys |-> 0]

ObserversInit ==
    /\ arrivals = [a \in Clients |-> <<>>]
    /\ admitted = 0
    /\ asked = [a \in Clients |-> "never"]

Init ==
    /\ LimiterInit /\ ObserversInit
    /\ pc = "arrived"
    /\ request \in {[addr |-> "10.0.0.1", body |-> b, today |-> t] :
                        b \in Bodies, t \in Todays}
    /\ response = NoAnswer
    /\ provider = NoProvider

Dispatch ==
    /\ pc = "arrived"
    /\ \E prov \in Met(request.body, request.today, Providers) :
            Serve(request.addr, request.body, request.today, prov)
    /\ UNCHANGED <<arrivals, admitted, asked>>

Next == Dispatch

Spec == Init /\ [][Next]_vars

---------------------------------------------------------------------------
(* What the claims speak of, stated on the request and its answer.         *)

Answered == pc = "done" /\ response.status # 429

IsObject == request.body.kind = "object"

Data == request.body.data

\* every value of the submission is a string
StringValued == \A f \in Fields : Data[f].kind \in {"str", "absent"}

\* a required value that is absent or empty: "", null, 0
IsMissing(v) == v \in {Absent, JStr(<<>>), JNull, JNum(0)}

MissingAt(i) == IsMissing(Data[required_fields[i]])

DateOfBirth == strptime(Data["birth_date"].s)

\* the rules of the validator, in the order of section 4.1; "birth" is the
\* rule that the date parses and the age is at least 18, "birthformat" the
\* rule that it is written YYYY-MM-DD
Broken(rule) ==
    CASE rule = "presence" -> \E i \in 1..Len(required_fields) : MissingAt(i)
      [] rule = "email" ->
            ~(Data["email_address"].kind = "str" /\ MatchEmail(Data["email_address"].s))
      [] rule = "phone" ->
            ~(/\ Data["phone_number"].kind = "str"
              /\ Len(StripNonDigits(Data["phone_number"].s)) = 10)
      [] rule = "birth" ->
            ~(/\ Data["birth_date"].kind = "str"
              /\ DateOfBirth.ok
              /\ Age(request.today, DateOfBirth) >= 18)
      [] rule = "postal" ->
            ~(/\ Data["address_postal_code"].kind = "str"
              /\ MatchPostal(Data["address_postal_code"].s))
      [] rule = "ssn" ->
            ~(Data["document_ssn"].kind = "str" /\ MatchSsn(Data["document_ssn"].s))
      [] rule = "birthformat" ->
            ~(Data["birth_date"].kind = "str" /\ MatchDate(Data["birth_date"].s))
      [] rule = "state" ->
            ~(Data["address_state"].kind = "str" /\ MatchState(Data["address_state"].s))
      [] rule = "country" -> Data["address_country_code"] # JStr(<<"U", "S">>)

\* the messages with which a broken rule is reported
Messages(rule) ==
    CASE rule = "presence" ->
            {"Missing required field: " \o FIELD_NAMES[required_fields[i]] :
                i \in {j \in 1..Len(required_fields) :
                        MissingAt(j) /\ \A k \in 1..(j - 1) : ~MissingAt(k)}}
      [] rule = "email" -> {"Invalid email format"}
      [] rule = "phone" -> {"Phone number must be 10 digits"}
      [] rule = "birth" ->
            IF DateOfBirth.ok THEN {"Must be at least 18 years old"}
            ELSE {"Invalid data format"}
      [] rule = "postal" -> {"Postal code must be 5 digits"}
      [] rule = "ssn" -> {"SSN must be exactly 9 digits with no dashes"}
      [] rule = "birthformat" -> {"Date of Birth must be in YYYY-MM-DD format"}
      [] rule = "state" -> {"State must be a 2-letter code (e.g., NY, CA)"}
      [] rule = "country" -> {"Country must be 'US'"}

\* the order in which the handler applies the rules
RuleOrder ==
    <<"presence", "email", "phone", "birth", "postal", "ssn", "birthformat",
      "state", "country">>

\* the order of section 4.1, where the birth date rule is one rule
StatedOrder ==
    <<"presence", "email", "phone", "birth date", "postal", "ssn", "state",
      "country">>

BrokenStated(rule) ==
    IF rule = "birth date" THEN Broken("birth") \/ Broken("birthformat")
    ELSE Broken(rule)

MessagesStated(rule) ==
    IF rule = "birth date" THEN Messages("birth") \cup Messages("birthformat")
    ELSE Messages(rule)

NoneBroken == \A i \in 1..Len(RuleOrder) : ~Broken(RuleOrder[i])

\* C1: the outbound provider call is issued at most once for a request, only
\* for a body that is a submission breaking no rule, and never for a request
\* answered 400
C1_CallOnceAfterValidation ==
    pc = "done" =>
        /\ response.calls <= 1
        /\ response.calls = 1 => (IsObject /\ NoneBroken)
        /\ response.status = 400 /\ provider.kind # "response" => response.calls = 0
        /\ (provider.kind = "none") = (response.calls = 0)

\* a valid submission whose one outbound call failed; the failure is
\* answered, the call is not repeated
C1_Witness ==
    /\ pc = "done" /\ IsObject /\ NoneBroken
    /\ provider.kind = "raise" /\ response.calls = 1 /\ response.status = 503

\* C2: a submission with a required field absent or empty is answered 400
\* "Missing required field: <label>", with the FIELD_NAMES label of the first
\* such field in the order of required_fields, whatever the other values
C2_MissingFieldNamed ==
    (Answered /\ IsObject) =>
        \A i \in 1..Len(required_fields) :
            (MissingAt(i) /\ \A k \in 1..(i - 1) : ~MissingAt(k)) =>
                /\ response.status = 400
                /\ response.error =
                     "Missing required field: " \o FIELD_NAMES[required_fields[i]]
                /\ response.calls = 0

\* the last name is missing, and a later required field is missing and a
\* value is no string: the last name is the field reported
C2_Witness ==
    /\ Answered /\ IsObject
    /\ ~MissingAt(1) /\ MissingAt(2)
    /\ \E i \in 3..Len(required_fields) : MissingAt(i)
    /\ response.error = "Missing required field: Last Name"

C4_BadBodyIs400 ==
    (Answered /\ ~IsObject) => response.status = 400

\* C5: when the outbound call times out, connecting or reading, the answer is
\* 504 "Request timed out. Please try again.", never the 503 answer
C5_TimeoutIs504 ==
    (Answered /\ provider.kind = "raise"
        /\ provider.exc \in {"ConnectTimeout", "ReadTimeout"}) =>
        /\ response.status = 504
        /\ response.error = "Request timed out. Please try again."

\* C6: the answer is 200 only when the provider answered 201, a 200 answer
\* carries the provider's outcome, and a provider status other than 201 is
\* answered with that status and "Alloy API error", which is no 200
C6_SuccessOnlyOn201 ==
    Answered =>
        /\ response.status = 200 =>
              (provider.kind = "response" /\ provider.status = 201
               /\ response.outcome # "")
        /\ (provider.kind = "response" /\ provider.status # 201) =>
              (/\ response.status = provider.status
               /\ response.error = "Alloy API error"
               /\ response.status # 200)

\* a string of exactly 9 of the characters 0..9
IsNineDigits(v) ==
    v.kind = "str" /\ Len(v.s) = 9 /\ \A i \in 1..Len(v.s) : v.s[i] \in AsciiDigits

\* C9: a submission of strings that passes the presence, email, phone, birth date and
\* postal code checks and whose SSN is anything but 9 digit characters is
\* answered 400 "SSN must be exactly 9 digits with no dashes", with no call
C9_SsnExactlyNineDigits ==
    (/\ Answered /\ IsObject /\ StringValued
     /\ ~Broken("presence") /\ ~Broken("email") /\ ~Broken("phone")
     /\ ~Broken("birth") /\ ~Broken("postal")
     /\ ~IsNineDigits(Data["document_ssn"])) =>
        /\ response.status = 400
        /\ response.error = "SSN must be exactly 9 digits with no dashes"
        /\ response.calls = 0

---------------------------------------------------------------------------
(* SpecAge: one request with a birth date and a current date drawn from    *)
(* three years each, the birth date written with or without leading zeros. *)

\* the decimal digits of n, w of them
Digits(n, w) == [i \in 1..w |-> DigitChars[((n \div (10 ^ (w - i))) % 10) + 1]]

FormatDate(d, padded) ==
    Digits(d.year, 4) \o <<"-">>
        \o Digits(d.month, IF padded \/ d.month > 9 THEN 2 ELSE 1) \o <<"-">>
        \o Digits(d.day, IF padded \/ d.day > 9 THEN 2 ELSE 1)

DatesIn(years) ==
    {Date(y, m, d) : y \in years, m \in {1, 2, 3, 12}, d \in {1, 28, 29, 31}}

CalendarDates(years) ==
    {d \in DatesIn(years) : IsCalendarDate(d.year, d.month, d.day)}

AgeBodies ==
    {ObjectBody([BaseData EXCEPT !["birth_date"] = JStr(FormatDate(b, padded)),
                                 !["address_postal_code"] = z]) :
        b \in CalendarDates(2006..2008), padded \in BOOLEAN,
        z \in {BaseData["address_postal_code"], JStr(<<"1", "2", "3", "4">>)}}

InitAge ==
    /\ LimiterInit /\ ObserversInit
    /\ pc = "arrived"
    /\ request \in {[addr |-> "10.0.0.1", body |-> b, today |-> t] :
                        b \in AgeBodies, t \in CalendarDates(2024..2026)}
    /\ response = NoAnswer
    /\ provider = NoProvider

SpecAge == InitAge /\ [][Next]_vars

\* today is before the day the applicant turns 18
BeforeEighteenth ==
    LET b == DateOfBirth
        t == request.today
    IN  \/ t.year < b.year + 18
        \/ t.year = b.year + 18 /\ t.month < b.month
        \/ t.year = b.year + 18 /\ t.month = b.month /\ t.day < b.day

\* C10: with the presence, email and phone checks passed and a birth date that
\* parses, an age below 18 is answered 400 "Must be at least 18 years old",
\* and from the 18th birthday on the age check does not reject
C10_AgeAtLeast18 ==
    (/\ Answered /\ IsObject
     /\ ~Broken("presence") /\ ~Broken("email") /\ ~Broken("phone")
     /\ Data["birth_date"].kind = "str" /\ DateOfBirth.ok) =>
        /\ BeforeEighteenth =>
              response = Answer(400, "Must be at least 18 years old", 0)
        /\ ~BeforeEighteenth => response.error # "Must be at least 18 years old"
        /\ (~BeforeEighteenth /\ NoneBroken) => response.calls = 1

\* the request arrives on the applicant's 18th birthday and is accepted
C10_Witness ==
    /\ Answered /\ IsObject /\ DateOfBirth.ok
    /\ request.today = Date(DateOfBirth.year + 18, DateOfBirth.month, DateOfBirth.day)
    /\ response.status = 200

---------------------------------------------------------------------------
(* SpecQuota and SpecHour: requests of two clients over time.              *)

\* the counter of the route's own limit for addr, as an arrival finds it
WindowCount(addr) ==
    Live(storage, expirations, KeyFor(addr, submit_limits[1]), now)

\* the arrivals of h that are less than a minute before t, the last 6 of them
Recent(h, t) ==
    LET InMinute(e) == e.t > t - MinuteTicks
        r == SelectSeq(h, InMinute)
    IN  IF Len(r) > 6 THEN SubSeq(r, Len(r) - 5, Len(r)) ELSE r

\* the clients of SpecQuota
QuotaClients == {"10.0.0.1"}

\* a request arrives; a client stops asking once MaxOver of its requests were
\* counted past the quota
Arrive(addr, body, prov) ==
    /\ pc = "done"
    /\ WindowCount(addr) < submit_limits[1].amount + MaxOver
    /\ Route(addr, body, Today0, prov, QuotaAnswer[body][prov])

RequestQ ==
    \E addr \in QuotaClients, body \in QuotaBodies :
        \E prov \in QuotaMet[body] :
            /\ Arrive(addr, body, prov)
            /\ arrivals' =
                 [arrivals EXCEPT ![addr] =
                    Recent(Append(@, [t |-> now, opened |-> WindowCount(addr) = 0,
                                      status |-> response'.status]), now)]
            /\ UNCHANGED <<admitted, asked>>

RequestH ==
    \E addr \in Clients :
        \E prov \in QuotaMet[ObjectBody(BaseData)] :
            /\ Arrive(addr, ObjectBody(BaseData), prov)
            /\ admitted' = admitted + (IF response'.status = 429 THEN 0 ELSE 1)
            /\ asked' = [asked EXCEPT ![addr] = IF @ = "never" THEN "once" ELSE "more"]
            /\ UNCHANGED arrivals

\* time passes, step ticks at a time, up to the bound; the storage's timer
\* drops the counters whose expiry has come
Tick(step, bound) ==
    /\ now + step <= bound
    /\ now' = now + step
    /\ storage' = [k \in Keys |-> Live(storage, expirations, k, now + step)]
    /\ expirations' = [k \in Keys |-> IF expirations[k] <= now + step THEN 0
                                      ELSE expirations[k]]
    /\ arrivals' = [a \in Clients |-> Recent(arrivals[a], now + step)]
    /\ UNCHANGED <<request, pc, response, provider, admitted, asked>>

\* in SpecQuota the clock advances by one tick
TickQ == Tick(1, MaxClock)

\* in SpecHour the clock advances by one minute
TickH == Tick(MinuteTicks, MaxMinutes * MinuteTicks)

InitIdle ==
    /\ LimiterInit /\ ObserversInit
    /\ pc = "done"
    /\ request = NoRequest
    /\ response = NoAnswer
    /\ provider = NoProvider

NextQuota == RequestQ \/ TickQ

NextHour == RequestH \/ TickH

SpecQuota == InitIdle /\ [][NextQuota]_vars

SpecHour == InitIdle /\ [][NextHour]_vars

\* the last request, from client a, is the 6th from a within one minute
SixthInMinute(a) ==
    /\ pc = "done" /\ request.addr = a
    /\ Len(arrivals[a]) = 6
    /\ arrivals[a][6].t = now

\* C7 as stated: the 6th request of a client within one minute is rejected
\* with 429 and is neither validated nor forwarded
C7_SixthInMinuteRejected ==
    \A a \in QuotaClients :
        SixthInMinute(a) => (response.status = 429 /\ response.calls = 0)

\* C7 amended: the 6th request of a client within one minute of a request
\* that opened the client's window (it found no unexpired counter) is
\* rejected with 429 and is neither validated nor forwarded, whatever the
\* answers to the five before it
C7_SixthInWindowRejected ==
    \A a \in QuotaClients :
        (SixthInMinute(a) /\ arrivals[a][1].opened) =>
            (response = RateLimited /\ provider = NoProvider)

\* the 6th request in a window is rejected although its body is invalid and
\* so was one of the five before it
C7_Witness ==
    /\ pc = "done" /\ request.addr \in Clients
    /\ SixthInMinute(request.addr) /\ arrivals[request.addr][1].opened
    /\ \E k \in 1..5 : arrivals[request.addr][k].status = 400
    /\ \E k \in 1..5 : arrivals[request.addr][k].status = 200
    /\ request.body # ObjectBody(BaseData)
    /\ response.status = 429

\* C8 as stated: across all clients at most 100 requests are admitted to the
\* handler within one hour
C8_HundredPerHourOverall ==
    now < HourTicks => admitted <= 100

\* C8 amended: no ceiling applies across clients; the first request of a
\* client is admitted however many requests of other clients were admitted
C8_FirstRequestAdmitted ==
    (pc = "done" /\ request.addr \in Clients /\ asked[request.addr] = "once") =>
        (response.status # 429 /\ admitted >= 1)

\* the first request of a client is admitted while another client is over its
\* quota
C8_Witness ==
    /\ pc = "done" /\ request.addr \in Clients /\ asked[request.addr] = "once"
    /\ response.status = 200
    /\ admitted > 5
    /\ \E b \in Clients \ {request.addr} : WindowCount(b) > 5
====
